---------------------------- MODULE Spec2Model ----------------------------
(***************************************************************************)
(* A model of tio.py, a command-line client of Tenable.io.                 *)
(*                                                                         *)
(* One process runs at a time.  An invocation is: main() parses the        *)
(* command line, check_api_keys() reads or creates ~/.tio/client.json,     *)
(* and the handler bound to the sub-command (info, export, server) calls   *)
(* the remote service through the pyTenable client.  Between invocations   *)
(* only the credential directory under the home directory survives; each   *)
(* invocation finds the working directory and the service in some state.   *)
(*                                                                         *)
(* The remote service and the operator are the environment: what the       *)
(* service holds, whether a remote call raises, and what the operator      *)
(* types are chosen nondeterministically from small sets.                  *)
(***************************************************************************)
EXTENDS Integers, Sequences, FiniteSets, TLC

(***************************************************************************)
(* Bounds of the model.                                                    *)
(***************************************************************************)
MaxScans == 2       \* configured scans the service lists
MaxHistory == 2     \* history records the service holds for a scan
MaxOffset == 3      \* largest value given to -o
MaxFormats == 2     \* file_format arguments on one export command line

(***************************************************************************)
(* Python's None and a present value.                                      *)
(***************************************************************************)
None == << >>
Some(v) == << v >>
IsNone(x) == x = << >>
Val(x) == x[1]

(***************************************************************************)
(* JSON values as the service returns them, json.dumps and str.            *)
(***************************************************************************)
JInt(n) == [kind |-> "int", val |-> n]
JStr(s) == [kind |-> "str", str |-> s]

Digit(d) ==
    CASE d = 0 -> "0" [] d = 1 -> "1" [] d = 2 -> "2" [] d = 3 -> "3"
      [] d = 4 -> "4" [] d = 5 -> "5" [] d = 6 -> "6" [] d = 7 -> "7"
      [] d = 8 -> "8" [] d = 9 -> "9"

RECURSIVE str(_)
str(n) ==
    IF n < 0 THEN "-" \o str(-n)
    ELSE IF n < 10 THEN Digit(n)
    ELSE str(n \div 10) \o Digit(n % 10)

dumps(j) ==
    IF j.kind = "int" THEN str(j.val) ELSE "\"" \o j.str \o "\""

(***************************************************************************)
(* File modes are sets of permission bits; a file is created with the      *)
(* requested bits less those of the process umask.                         *)
(***************************************************************************)
Mode0700 == {"ur", "uw", "ux"}
Mode0600 == {"ur", "uw"}
Mode0666 == {"ur", "uw", "gr", "gw", "or", "ow"}
Mode0755 == {"ur", "uw", "ux", "gr", "gx", "or", "ox"}
Umask022 == {"gw", "ow"}
Umask077 == {"gr", "gw", "gx", "or", "ow", "ox"}
Umasks == {Umask022, Umask077}
CreateMode(requested, mask) == requested \ mask

(***************************************************************************)
(* What the operator can type at the two prompts.                          *)
(***************************************************************************)
AccessKeys == {"AK1", "AK2"}
SecretKeys == {"SK1"}

(***************************************************************************)
(* The command line.                                                       *)
(***************************************************************************)
Commands == {"info", "export", "server"}
\* "none": no argument at all; "unknown": a word that is no sub-command;
\* "dashdash": the lone argument "--", which argparse accepts and which
\* leaves the namespace without a sub-command.
CommandLines == {"none", "unknown", "dashdash"} \cup Commands
FormatChoices == {"nessus", "html", "pdf", "csv"}
Filenames == {"report"}
ScanIdArgs == {None, Some(0), Some(1)}
UuidArgs == {None, Some("uuid-1")}
OffsetArgs == 0..MaxOffset
FormatLists == UNION {[1..n -> FormatChoices] : n \in 1..MaxFormats}

NoArgs ==
    [scan_id |-> None, offset |-> 1, uuid |-> None,
     filename |-> "", file_format |-> << >>]

ArgvSet ==
    {[cmd |-> c, opts |-> NoArgs] : c \in CommandLines \ {"info", "export"}}
    \cup {[cmd |-> "info",
           opts |-> [NoArgs EXCEPT !.scan_id = s, !.offset = o, !.uuid = u]] :
            s \in ScanIdArgs, o \in OffsetArgs, u \in UuidArgs}
    \cup {[cmd |-> "export",
           opts |-> [NoArgs EXCEPT !.filename = f, !.file_format = ff]] :
            f \in Filenames, ff \in FormatLists}

(***************************************************************************)
(* The remote service: the configured scans and the history of the scan    *)
(* asked for.  Scan ids of the service are positive; an id may come back   *)
(* as a number or as a string.  Names are distinct.                        *)
(***************************************************************************)
ScanIds == {JInt(1), JInt(2), JStr("1")}
CreationDates == {JInt(0), JInt(7)}

ScanSummary(i, b) ==
    [id |-> b.id, creation_date |-> b.creation_date,
     name |-> JStr("scan" \o str(i))]

ScanLists ==
    UNION {{[i \in 1..n |-> ScanSummary(i, f[i])] :
              f \in [1..n -> [id : ScanIds, creation_date : CreationDates]]} :
           n \in 0..MaxScans}

HistoryRecord(i) ==
    [id |-> i, time_start |-> JInt(10 + i), time_end |-> JInt(20 + i)]

Histories == {[i \in 1..n |-> HistoryRecord(i)] : n \in 0..MaxHistory}

NoService == [scans |-> << >>, history |-> << >>]
Services == [scans : ScanLists, history : Histories]

\* What a failing call raises: an AttributeError, or any other exception.
ErrorKinds == {"AttributeError", "APIError"}

(***************************************************************************)
(* The working directory.                                                  *)
(***************************************************************************)
Bytes == {"b1", "b2"}
Bystander == "notes.txt"
Paths ==
    Filenames \cup {f \o "." \o t : f \in Filenames, t \in FormatChoices}
    \cup {Bystander}

\* The working directory as an export invocation may find it.
WorkDirs ==
    {[p \in Paths |->
        IF p = Bystander THEN Some("b1")
        ELSE IF p \in Filenames THEN stray
        ELSE IF p = "report.csv" THEN old
        ELSE None] :
     stray \in {None, Some("b2")}, old \in {None, Some("b2")}}

EmptyDir == [p \in Paths |-> IF p = Bystander THEN Some("b1") ELSE None]

NoOut ==
    [usage |-> FALSE, zero_notice |-> FALSE, clamp_notice |-> FALSE,
     header |-> None, records |-> << >>, files |-> << >>]

VARIABLES
    pc,               \* where the running process is; "idle" when none runs
    umask,            \* the operator's umask
    tioDir,           \* ~/.tio: [exists, mode]
    clientFile,       \* ~/.tio/client.json: [exists, mode, content]
    clientFile0,      \* client.json as the invocation found it
    argv,             \* the command line of the invocation
    args,             \* the namespace parse_args returned
    service,          \* what the remote service holds
    fs,               \* the working directory: path -> None or Some(bytes)
    fs0,              \* the working directory as the invocation found it
    tio,              \* the client check_api_keys returned
    entered,          \* the keys typed at the prompts
    prompts,          \* times the operator was prompted for the two keys
    writes,           \* times client.json was written
    configured_scans, \* configured_scans_info's list
    scan_info,        \* get_scan_history's list
    out,              \* what was printed
    calls,            \* the remote calls made, in order: [op, arg]
    exported,         \* the bytes scans.export wrote, per completed format
    exc,              \* the exception in flight
    exit_status       \* the status the process exited with

vars ==
    <<pc, umask, tioDir, clientFile, clientFile0, argv, args, service, fs, fs0,
      tio, entered, prompts, writes, configured_scans, scan_info, out, calls,
      exported, exc, exit_status>>

homeVars == <<umask, tioDir, clientFile>>
credVars == <<tio, entered, prompts, writes>>
infoVars == <<configured_scans, scan_info>>

NoFunc == [func |-> None, opts |-> NoArgs]

Init ==
    /\ pc = "idle"
    /\ umask \in Umasks
    /\ tioDir \in {[exists |-> FALSE, mode |-> {}],
                   [exists |-> TRUE, mode |-> Mode0700],
                   [exists |-> TRUE, mode |-> Mode0755]}
    /\ clientFile = [exists |-> FALSE, mode |-> {}, content |-> << >>]
    /\ clientFile0 = clientFile
    /\ argv = [cmd |-> "none", opts |-> NoArgs]
    /\ args = NoFunc
    /\ service = NoService
    /\ fs = EmptyDir
    /\ fs0 = EmptyDir
    /\ tio = None
    /\ entered = None
    /\ prompts = 0
    /\ writes = 0
    /\ configured_scans = << >>
    /\ scan_info = << >>
    /\ out = NoOut
    /\ calls = << >>
    /\ exported = << >>
    /\ exc = None
    /\ exit_status = None

(***************************************************************************)
(* A process starts: the operator runs tio.py with some command line, in   *)
(* some working directory.                                                 *)
(***************************************************************************)
Invoke ==
    /\ pc = "idle"
    /\ \E a \in ArgvSet :
        /\ argv' = a
        /\ fs' \in (IF a.cmd = "export" THEN WorkDirs ELSE {EmptyDir})
    /\ fs0' = fs'
    /\ clientFile0' = clientFile
    /\ pc' = "parse_args"
    /\ UNCHANGED <<homeVars, args, service, credVars, infoVars, out, calls,
                   exported, exc, exit_status>>

\* The process is gone, and with it everything but the home directory.
ProcessEnds ==
    /\ pc = "exited"
    /\ pc' = "idle"
    /\ clientFile0' = clientFile
    /\ argv' = [cmd |-> "none", opts |-> NoArgs]
    /\ args' = NoFunc
    /\ service' = NoService
    /\ fs' = EmptyDir
    /\ fs0' = EmptyDir
    /\ tio' = None
    /\ entered' = None
    /\ prompts' = 0
    /\ writes' = 0
    /\ configured_scans' = << >>
    /\ scan_info' = << >>
    /\ out' = NoOut
    /\ calls' = << >>
    /\ exported' = << >>
    /\ exc' = None
    /\ exit_status' = None
    /\ UNCHANGED homeVars

Call(op, arg) == [op |-> op, arg |-> arg]

Exit(status) ==
    /\ exit_status' = Some(status)
    /\ pc' = "exited"

Raise(kind) ==
    /\ exc' = Some(kind)
    /\ pc' = "raised"


(***************************************************************************)
(* main, lines 210-233: parse_args.  An unknown word is an invalid choice  *)
(* of the sub-command: argparse prints the usage and an error and exits    *)
(* with status 2.  The filename of export has type FileType('w'): parsing  *)
(* opens it for writing, which creates or truncates it.                    *)
(***************************************************************************)
HandlerOf(cmd) ==
    CASE cmd = "info" -> "configured_scans_info"
      [] cmd = "export" -> "export_scans"
      [] cmd = "server" -> "server_info"

OpenForWriting(files, path) == [files EXCEPT ![path] = Some("")]

ParseArgs ==
    /\ pc = "parse_args"
    /\ \/ /\ argv.cmd = "unknown"
          /\ out' = [out EXCEPT !.usage = TRUE]
          /\ Exit(2)
          /\ UNCHANGED <<args, fs>>
       \/ /\ argv.cmd \in {"none", "dashdash"}
          /\ args' = NoFunc
          /\ pc' = "check_argc"
          /\ UNCHANGED <<out, fs, exit_status>>
       \/ /\ argv.cmd \in {"info", "server"}
          /\ args' = [func |-> Some(HandlerOf(argv.cmd)), opts |-> argv.opts]
          /\ pc' = "check_argc"
          /\ UNCHANGED <<out, fs, exit_status>>
       \/ /\ argv.cmd = "export"
          /\ fs' = OpenForWriting(fs, argv.opts.filename)
          /\ args' = [func |-> Some(HandlerOf(argv.cmd)), opts |-> argv.opts]
          /\ pc' = "check_argc"
          /\ UNCHANGED <<out, exit_status>>
    /\ UNCHANGED <<homeVars, clientFile0, argv, service, fs0, credVars,
                   infoVars, calls, exported, exc>>

\* main, lines 236-238: with no argument, print the help and exit.
CheckArgc ==
    /\ pc = "check_argc"
    /\ \/ /\ argv.cmd = "none"
          /\ out' = [out EXCEPT !.usage = TRUE]
          /\ Exit(0)
       \/ /\ argv.cmd # "none"
          /\ pc' = "check_api_keys"
          /\ UNCHANGED <<out, exit_status>>
    /\ UNCHANGED <<homeVars, clientFile0, argv, args, service, fs, fs0,
                   credVars, infoVars, calls, exported, exc>>

(***************************************************************************)
(* check_api_keys, lines 170-205.                                          *)
(***************************************************************************)
Readable(f) == f.exists /\ "ur" \in f.mode

\* The two keys stored under each other's name.
KeysDocument_Swapped(a_key, s_key) ==
    [tenable_io |-> [a_key |-> s_key, s_key |-> a_key]]

\* json.dump of lines 184-200 and json.load of lines 178-180.
KeysDocument(a_key, s_key) ==
    [tenable_io |-> [a_key |-> a_key, s_key |-> s_key]]
TenableIO(access_key, secret_key) ==
    [access_key |-> access_key, secret_key |-> secret_key]
LoadClient(content) ==
    TenableIO(content[1].tenable_io.a_key, content[1].tenable_io.s_key)

\* lines 176-183: open client.json for reading; an IOError starts the
\* first-run path.
OpenClientFile ==
    /\ pc = "check_api_keys"
    /\ IF Readable(clientFile)
       THEN /\ tio' = Some(LoadClient(clientFile.content))
            /\ pc' = "dispatch"
       ELSE /\ pc' = "prompt"
            /\ UNCHANGED tio
    /\ UNCHANGED <<homeVars, clientFile0, argv, args, service, fs, fs0,
                   entered, prompts, writes, infoVars, out, calls, exported,
                   exc, exit_status>>

\* lines 184-195: the warning and the two input() calls.
PromptKeys ==
    /\ pc = "prompt"
    /\ \E a \in AccessKeys, s \in SecretKeys :
        entered' = Some([a_key |-> a, s_key |-> s])
    /\ prompts' = prompts + 1
    /\ pc' = "mkdir"
    /\ UNCHANGED <<homeVars, clientFile0, argv, args, service, fs, fs0, tio,
                   writes, infoVars, out, calls, exported, exc, exit_status>>

\* lines 197-198: create ~/.tio when it does not exist.
MakeDir ==
    /\ pc = "mkdir"
    /\ tioDir' = IF tioDir.exists THEN tioDir
                 ELSE [exists |-> TRUE, mode |-> CreateMode(Mode0700, umask)]
    /\ pc' = "open_w"
    /\ UNCHANGED <<umask, clientFile, clientFile0, argv, args, service, fs,
                   fs0, credVars, infoVars, out, calls, exported, exc,
                   exit_status>>

\* line 199: open client.json for writing, which creates it with the
\* default mode or truncates it.
OpenStoreKeyFile ==
    /\ pc = "open_w"
    /\ clientFile' =
         [exists |-> TRUE,
          mode |-> IF clientFile.exists THEN clientFile.mode
                   ELSE CreateMode(Mode0666, umask),
          content |-> << >>]
    /\ pc' = "dump"
    /\ UNCHANGED <<umask, tioDir, clientFile0, argv, args, service, fs, fs0,
                   credVars, infoVars, out, calls, exported, exc, exit_status>>

\* line 200: json.dump, and the file is closed.
DumpKeys ==
    /\ pc = "dump"
    /\ clientFile' =
         [clientFile EXCEPT
            !.content = <<KeysDocument(Val(entered).a_key, Val(entered).s_key)>>]
    /\ writes' = writes + 1
    /\ pc' = "chmod"
    /\ UNCHANGED <<umask, tioDir, clientFile0, argv, args, service, fs, fs0,
                   tio, entered, prompts, infoVars, out, calls, exported, exc,
                   exit_status>>

\* lines 201-205: chmod 0600, build the client from the typed keys, return.
ChmodAndReturn ==
    /\ pc = "chmod"
    /\ clientFile' = [clientFile EXCEPT !.mode = Mode0600]
    /\ tio' = Some(TenableIO(Val(entered).a_key, Val(entered).s_key))
    /\ pc' = "dispatch"
    /\ UNCHANGED <<umask, tioDir, clientFile0, argv, args, service, fs, fs0,
                   entered, prompts, writes, infoVars, out, calls, exported,
                   exc, exit_status>>

(***************************************************************************)
(* main, lines 240-245: call the handler; an AttributeError, raised by     *)
(* args.func when no sub-command was given or by anything the handler      *)
(* runs, prints the help and exits with status 0.  Any other exception     *)
(* leaves main: a traceback and status 1.  The info handler finds the      *)
(* service in some state.                                                  *)
(***************************************************************************)
Dispatch ==
    /\ pc = "dispatch"
    /\ \/ /\ IsNone(args.func)
          /\ Raise("AttributeError")
          /\ UNCHANGED service
       \/ /\ args.func = Some("configured_scans_info")
          /\ service' \in Services
          /\ pc' = "list_scans"
          /\ UNCHANGED exc
       \/ /\ args.func = Some("export_scans")
          /\ pc' = "export_loop"
          /\ UNCHANGED <<service, exc>>
       \/ /\ args.func = Some("server_info")
          /\ pc' = "server_properties"
          /\ UNCHANGED <<service, exc>>
    /\ UNCHANGED <<homeVars, clientFile0, argv, args, fs, fs0, credVars,
                   infoVars, out, calls, exported, exit_status>>

Caught(kind) == kind = "AttributeError"

MainExcept ==
    /\ pc = "raised"
    /\ IF Caught(Val(exc))
       THEN /\ out' = [out EXCEPT !.usage = TRUE]
            /\ Exit(0)
       ELSE /\ out' = out
            /\ Exit(1)
    /\ UNCHANGED <<homeVars, clientFile0, argv, args, service, fs, fs0,
                   credVars, infoVars, calls, exported, exc>>

(***************************************************************************)
(* server_info, lines 155-165.                                             *)
(***************************************************************************)
ServerProperties ==
    /\ pc = "server_properties"
    /\ calls' = Append(calls, Call("server.properties", ""))
    /\ \/ /\ pc' = "server_status"
          /\ UNCHANGED exc
       \/ \E kind \in ErrorKinds : Raise(kind)
    /\ UNCHANGED <<homeVars, clientFile0, argv, args, service, fs, fs0,
                   credVars, infoVars, out, exported, exit_status>>

ServerStatus ==
    /\ pc = "server_status"
    /\ calls' = Append(calls, Call("server.status", ""))
    /\ \/ /\ Exit(0)
          /\ UNCHANGED exc
       \/ /\ \E kind \in ErrorKinds : Raise(kind)
          /\ UNCHANGED exit_status
    /\ UNCHANGED <<homeVars, clientFile0, argv, args, service, fs, fs0,
                   credVars, infoVars, out, exported>>

(***************************************************************************)
(* configured_scans_info, lines 50-73.                                     *)
(***************************************************************************)
Truthy(opt) == ~IsNone(opt) /\ Val(opt) # 0

\* lines 53-63: fetch and print the configured scans.
ListScans ==
    /\ pc = "list_scans"
    /\ calls' = Append(calls, Call("scans.list", ""))
    /\ \/ /\ configured_scans' = service.scans
          /\ Truthy(args.opts.scan_id)
          /\ pc' = "get_scan_history"
          /\ UNCHANGED <<exc, exit_status>>
       \/ /\ configured_scans' = service.scans
          /\ ~Truthy(args.opts.scan_id)
          /\ Exit(0)
          /\ UNCHANGED exc
       \/ /\ \E kind \in ErrorKinds : Raise(kind)
          /\ UNCHANGED <<configured_scans, exit_status>>
    /\ UNCHANGED <<homeVars, clientFile0, argv, args, service, fs, fs0,
                   credVars, scan_info, out, exported>>

(***************************************************************************)
(* get_scan_history, lines 85-127.                                         *)
(***************************************************************************)
\* lines 91 and 112: the comparison that selects a summary.
Matches(scan, scan_id) == dumps(scan.id) = str(scan_id)

\* The serialized creation_date compared with the number 0, never equal.
HasZeroRecords_NumberCompare(scans, scan_id) == FALSE

\* lines 90-96: a summary of the requested scan has creation_date 0.
HasZeroRecords(scans, scan_id) ==
    \E i \in 1..Len(scans) :
        /\ Matches(scans[i], scan_id)
        /\ dumps(scans[i].creation_date) = "0"

\* lines 111-114: the header of the first summary that matches.
Header(scans, scan_id) ==
    LET hits == {i \in 1..Len(scans) : Matches(scans[i], scan_id)}
    IN  IF hits = {} THEN None
        ELSE LET first == CHOOSE i \in hits : \A j \in hits : i <= j
             IN  Some(<<dumps(scans[first].id), dumps(scans[first].name)>>)

\* The clamp taken also when the offset equals the number of records.
Clamps_Inclusive(offset, num_scan_info) == offset >= num_scan_info

\* line 118: the test that clamps the offset.
Clamps(offset, num_scan_info) == offset > num_scan_info

\* lines 124-126: what is printed for one history record.
PrintedRecord(history) ==
    [started |-> history.time_start.val, ended |-> history.time_end.val,
     record |-> history]

\* lines 123-127: the records printed, from the first on.
PrintedRecords(info, offset) ==
    [i \in 1..offset |-> PrintedRecord(info[i])]

ZeroRecordsCheck ==
    /\ pc = "get_scan_history"
    /\ IF HasZeroRecords(configured_scans, Val(args.opts.scan_id))
       THEN /\ out' = [out EXCEPT !.zero_notice = TRUE]
            /\ pc' = "show_scan_info"
       ELSE /\ out' = out
            /\ pc' = "fetch_history"
    /\ UNCHANGED <<homeVars, clientFile0, argv, args, service, fs, fs0,
                   credVars, infoVars, calls, exported, exc, exit_status>>

\* lines 99-105.
FetchHistory ==
    /\ pc = "fetch_history"
    /\ calls' = Append(calls, Call("scans.history", str(Val(args.opts.scan_id))))
    /\ \/ /\ scan_info' = service.history
          /\ pc' = "print_history"
          /\ UNCHANGED exc
       \/ /\ \E kind \in ErrorKinds : Raise(kind)
          /\ UNCHANGED scan_info
    /\ UNCHANGED <<homeVars, clientFile0, argv, args, service, fs, fs0,
                   credVars, configured_scans, out, exported, exit_status>>

\* lines 107-127.
PrintHistory ==
    /\ pc = "print_history"
    /\ LET num_scan_info == Len(scan_info)
           clamp == Clamps(args.opts.offset, num_scan_info)
           offset == IF clamp THEN num_scan_info ELSE args.opts.offset
       IN  out' = [out EXCEPT
                     !.header = Header(configured_scans, Val(args.opts.scan_id)),
                     !.clamp_notice = clamp,
                     !.records = PrintedRecords(scan_info, offset)]
    /\ pc' = "show_scan_info"
    /\ UNCHANGED <<homeVars, clientFile0, argv, args, service, fs, fs0,
                   credVars, infoVars, calls, exported, exc, exit_status>>

\* lines 72-73 and show_scan_info, lines 77-81.
ShowScanInfo ==
    /\ pc = "show_scan_info"
    /\ \/ /\ IsNone(args.opts.uuid)
          /\ Exit(0)
          /\ UNCHANGED <<calls, exc>>
       \/ /\ ~IsNone(args.opts.uuid)
          /\ calls' = Append(calls, Call("scans.info", str(Val(args.opts.scan_id))))
          /\ \/ /\ Exit(0)
                /\ UNCHANGED exc
             \/ /\ \E kind \in ErrorKinds : Raise(kind)
                /\ UNCHANGED exit_status
    /\ UNCHANGED <<homeVars, clientFile0, argv, args, service, fs, fs0,
                   credVars, infoVars, out, exported>>

(***************************************************************************)
(* export_scans, lines 132-151.                                            *)
(***************************************************************************)
\* What a failed export leaves in the file it was writing.
PartialBytes == {""} \cup Bytes

\* Every format written to the file named on the command line.
ExportPath_NoExtension(filename, file_type) == filename

\* lines 145 and 147: the file of one format.
ExportPath(filename, file_type) == filename \o "." \o file_type

\* lines 144-147: one turn of the loop.  The formats done so far are those
\* whose file name has been printed.
ExportFormat ==
    /\ pc = "export_loop"
    /\ Len(out.files) < Len(args.opts.file_format)
    /\ LET file_type == args.opts.file_format[Len(out.files) + 1]
           path == ExportPath(args.opts.filename, file_type)
       IN  \/ \* the file is written and closed
              /\ \E b \in Bytes :
                   /\ fs' = [fs EXCEPT ![path] = Some(b)]
                   /\ exported' = Append(exported, b)
              /\ calls' = Append(calls, Call("scans.export", file_type))
              /\ out' = [out EXCEPT !.files = Append(@, path)]
              /\ UNCHANGED <<pc, exc>>
           \/ \* open fails: nothing is created and nothing is requested
              /\ Raise("OSError")
              /\ UNCHANGED <<fs, exported, calls, out>>
           \/ \* scans.export fails in an opened, hence truncated, file
              /\ \E b \in PartialBytes : fs' = [fs EXCEPT ![path] = Some(b)]
              /\ calls' = Append(calls, Call("scans.export", file_type))
              /\ \E kind \in ErrorKinds : Raise(kind)
              /\ UNCHANGED <<exported, out>>
    /\ UNCHANGED <<homeVars, clientFile0, argv, args, service, fs0, credVars,
                   infoVars, exit_status>>

\* The file argparse opened left where it is.
Remove_Nothing(files, path) == files

\* lines 149-151: remove the file argparse opened.
Remove(files, path) == [files EXCEPT ![path] = None]

RemoveStray ==
    /\ pc = "export_loop"
    /\ Len(out.files) = Len(args.opts.file_format)
    /\ IF IsNone(fs[args.opts.filename])
       THEN /\ Raise("OSError")
            /\ UNCHANGED <<fs, exit_status>>
       ELSE /\ fs' = Remove(fs, args.opts.filename)
            /\ Exit(0)
            /\ UNCHANGED exc
    /\ UNCHANGED <<homeVars, clientFile0, argv, args, service, fs0, credVars,
                   infoVars, out, calls, exported>>

Next ==
    \/ Invoke
    \/ ProcessEnds
    \/ ParseArgs
    \/ CheckArgc
    \/ OpenClientFile
    \/ PromptKeys
    \/ MakeDir
    \/ OpenStoreKeyFile
    \/ DumpKeys
    \/ ChmodAndReturn
    \/ Dispatch
    \/ MainExcept
    \/ ServerProperties
    \/ ServerStatus
    \/ ListScans
    \/ ZeroRecordsCheck
    \/ FetchHistory
    \/ PrintHistory
    \/ ShowScanInfo
    \/ ExportFormat
    \/ RemoveStray

Spec == Init /\ [][Next]_vars

(***************************************************************************)
(* Properties.                                                             *)
(***************************************************************************)
Max(S) == CHOOSE m \in S : \A n \in S : n <= m
Min(S) == CHOOSE m \in S : \A n \in S : m <= n

\* The file the specification calls F.<format>.
Dotted(F, format) == F \o "." \o format

\* The remote calls made so far, by name.
CallNames == {calls[i].op : i \in DOMAIN calls}

\* The last turn among the first n that exported the format of turn i.
LastTurn(formats, i, n) == Max({j \in 1..n : formats[j] = formats[i]})

\* The summaries of configured_scans whose serialized id is the requested id.
Hits == {i \in DOMAIN configured_scans :
            dumps(configured_scans[i].id) = str(Val(args.opts.scan_id))}

\* C1: with no credential file at the start of an invocation of a command,
\* check_api_keys prompts exactly once and leaves the two typed values in the
\* credential file; in an invocation that finds the file, nothing is prompted
\* and the file is not written.
C1_PromptOnceThenNever ==
    (argv.cmd \in Commands /\ pc # "idle") =>
        /\ clientFile0.exists =>
              (prompts = 0 /\ writes = 0 /\ clientFile = clientFile0)
        /\ (~clientFile0.exists /\ ~IsNone(tio)) =>
              /\ prompts = 1
              /\ writes = 1
              /\ clientFile.exists
              /\ Len(clientFile.content) = 1
              /\ clientFile.content[1].tenable_io.a_key = Val(entered).a_key
              /\ clientFile.content[1].tenable_io.s_key = Val(entered).s_key

\* A later invocation of a command found the file an earlier one had saved,
\* and went through check_api_keys without prompting.
C1_Witness ==
    /\ pc = "exited"
    /\ argv.cmd \in Commands
    /\ clientFile0.exists
    /\ ~IsNone(tio)
    /\ prompts = 0

\* C2: after export_scans completes without failure, every requested format
\* has its file F.<format> holding the bytes the collaborator wrote for that
\* format (the last time it was asked for it), F itself is not on disk, and
\* no other file was created or changed.
C2_ExportProducesExactly ==
    (pc = "exited" /\ argv.cmd = "export" /\ IsNone(exc)) =>
        LET F == args.opts.filename
            formats == args.opts.file_format
            wanted == {Dotted(F, formats[i]) : i \in DOMAIN formats}
        IN  /\ exit_status = Some(0)
            /\ Len(exported) = Len(formats)
            /\ \A i \in DOMAIN formats :
                 fs[Dotted(F, formats[i])] =
                    Some(exported[LastTurn(formats, i, Len(formats))])
            /\ IsNone(fs[F])
            /\ \A p \in Paths \ (wanted \cup {F}) : fs[p] = fs0[p]

\* An export of two different formats completed.
C2_Witness ==
    /\ pc = "exited"
    /\ argv.cmd = "export"
    /\ IsNone(exc)
    /\ Len(args.opts.file_format) = 2
    /\ args.opts.file_format[1] # args.opts.file_format[2]
    /\ exported = <<"b1", "b2">>

\* C3, as claimed: when the export of the k-th format fails, no later format
\* is requested or written, and the file of every format before the k-th
\* still holds the bytes written to it.
C3_EarlierFilesUnchanged ==
    (argv.cmd = "export" /\ pc = "raised") =>
        LET F == args.opts.filename
            formats == args.opts.file_format
            k == Len(out.files) + 1
        IN  /\ Len(calls) <= k
            /\ \A i \in 1..(k - 1) :
                 fs[Dotted(F, formats[i])] =
                    Some(exported[LastTurn(formats, i, k - 1)])

\* C3, amended: when the export of the k-th format fails, the formats were
\* requested in order and none after the k-th was requested or written;
\* the file of every format before the k-th is still on disk, and it holds
\* the bytes written to it unless it is the file of the k-th format itself.
C3_FailureStopsExport ==
    (argv.cmd = "export" /\ pc \in {"raised", "exited"} /\ ~IsNone(exc)) =>
        LET F == args.opts.filename
            formats == args.opts.file_format
            k == Len(out.files) + 1
        IN  /\ k <= Len(formats)
            /\ Len(calls) \in {k - 1, k}
            /\ \A i \in DOMAIN calls :
                 calls[i] = Call("scans.export", formats[i])
            /\ \A i \in 1..(k - 1) :
                 /\ ~IsNone(fs[Dotted(F, formats[i])])
                 /\ formats[i] # formats[k] =>
                      fs[Dotted(F, formats[i])] =
                         Some(exported[LastTurn(formats, i, k - 1)])
            /\ \A t \in FormatChoices \ {formats[i] : i \in 1..k} :
                 fs[Dotted(F, t)] = fs0[Dotted(F, t)]

\* The second of two different formats failed after the first was written.
C3_Witness ==
    /\ argv.cmd = "export"
    /\ pc = "raised"
    /\ Len(out.files) = 1
    /\ Len(calls) = 2
    /\ args.opts.file_format[1] # args.opts.file_format[2]

\* C4, as claimed: when get_scan_history returns for a scan with N history
\* records and offset k, k > N prints N records and the clamp notice,
\* 1 <= k <= N prints k records and no clamp notice, and the records printed
\* are the first of the history, in order.
C4_ClampOrExact ==
    (argv.cmd = "info" /\ Truthy(args.opts.scan_id) /\ pc = "show_scan_info") =>
        LET N == Len(service.history)
            k == args.opts.offset
        IN  /\ k > N => (Len(out.records) = N /\ out.clamp_notice)
            /\ (1 <= k /\ k <= N) => (Len(out.records) = k /\ ~out.clamp_notice)
            /\ \A i \in DOMAIN out.records :
                 out.records[i].record = service.history[i]

\* C4, amended: the same, for a scan none of whose matching summaries has a
\* creation_date of zero, so that get_scan_history fetches the history.
C4_ClampOrExactWhenFetched ==
    (/\ argv.cmd = "info"
     /\ Truthy(args.opts.scan_id)
     /\ pc = "show_scan_info"
     /\ \A i \in Hits : configured_scans[i].creation_date # JInt(0)) =>
        LET N == Len(service.history)
            k == args.opts.offset
        IN  /\ "scans.history" \in CallNames
            /\ k > N => (Len(out.records) = N /\ out.clamp_notice)
            /\ (1 <= k /\ k <= N) => (Len(out.records) = k /\ ~out.clamp_notice)
            /\ Len(out.records) <= N
            /\ \A i \in DOMAIN out.records :
                 /\ out.records[i].record = service.history[i]
                 /\ out.records[i].started = service.history[i].time_start.val
                 /\ out.records[i].ended = service.history[i].time_end.val

\* An offset above the two records of the history was clamped.
C4_Witness ==
    /\ argv.cmd = "info"
    /\ pc = "show_scan_info"
    /\ Hits # {}
    /\ args.opts.offset = 3
    /\ Len(service.history) = 2
    /\ Len(out.records) = 2
    /\ out.clamp_notice

\* C5: in an info invocation whose scan_id matches a summary with a
\* creation_date of zero, scans.history is never called, no history record
\* and no clamp notice is printed, and once get_scan_history has returned
\* the zero-records notice has been printed.
C5_ZeroRecordsNoFetch ==
    (/\ argv.cmd = "info"
     /\ ~IsNone(args.opts.scan_id)
     /\ \E i \in Hits : configured_scans[i].creation_date = JInt(0)) =>
        /\ "scans.history" \notin CallNames
        /\ out.records = << >>
        /\ ~out.clamp_notice
        /\ IsNone(out.header)
        /\ pc \in {"show_scan_info", "raised", "exited"} => out.zero_notice

\* The info command ended for a scan whose summary has a creation_date of
\* zero while the service holds history records.
C5_Witness ==
    /\ argv.cmd = "info"
    /\ pc = "exited"
    /\ ~IsNone(args.opts.scan_id)
    /\ \E i \in Hits : configured_scans[i].creation_date = JInt(0)
    /\ Len(service.history) > 0
    /\ out.zero_notice

\* C6: run with no argument or with an unknown command, the program prints
\* the usage and exits with status 0, without calling a handler or the
\* service.
C6_UsageAndSuccess ==
    (pc = "exited" /\ argv.cmd \in {"none", "unknown"}) =>
        /\ out.usage
        /\ exit_status = Some(0)
        /\ IsNone(args.func)
        /\ calls = << >>

\* C7: a summary matches when its serialized id is the string of the
\* requested id, and the first match decides both the zero-records notice
\* and the header, whatever summaries follow it.
C7_FirstMatchDecides ==
    (argv.cmd = "info" /\ Truthy(args.opts.scan_id) /\ pc = "show_scan_info") =>
        LET first == configured_scans[Min(Hits)]
        IN  /\ out.zero_notice <=>
                 (Hits # {} /\ first.creation_date = JInt(0))
            /\ ~out.zero_notice =>
                 out.header =
                    (IF Hits = {} THEN None
                     ELSE Some(<<dumps(first.id), dumps(first.name)>>))

\* C8: whenever the credential file holds the keys its mode is 0600, at
\* every step of check_api_keys, and once the keys are saved the directory
\* has mode 0700, whether or not it existed before.
C8_OwnerOnlyAlways ==
    /\ (clientFile.exists /\ clientFile.content # << >>) =>
          clientFile.mode = Mode0600
    /\ (writes > 0 /\ ~IsNone(tio)) => tioDir.mode = Mode0700

\* C9: a failure of a remote call, whatever it raises, leaves main
\* unhandled: the process does not print the usage and exit with status 0.
C9_RemoteFailurePropagates ==
    (pc = "exited" /\ ~IsNone(exc) /\ calls # << >>) =>
        /\ ~out.usage
        /\ exit_status # Some(0)

\* C10: an export invocation, whether it succeeds or fails, leaves every
\* file that existed before it under a name other than F.<format>, the
\* file named F included, on disk with the contents it had.
C10_OtherFilesUntouched ==
    (pc = "exited" /\ argv.cmd = "export") =>
        LET F == argv.opts.filename
            formats == argv.opts.file_format
            wanted == {Dotted(F, formats[i]) : i \in DOMAIN formats}
        IN  \A p \in Paths \ wanted :
               ~IsNone(fs0[p]) => fs[p] = fs0[p]
=============================================================================
